---- MODULE Spec2Model ----
(***************************************************************************)
(* markboost-seo: the slug generator (core/utils/slugify.ts), the SEO      *)
(* generator (llm/mdToSEO.ts) and the Note Indexer that drives them.       *)
(*                                                                         *)
(* A string is a sequence of UTF-16 code units (integers): "a" is <<97>>.  *)
(* An optional value is a record [defined, value].                         *)
(***************************************************************************)
EXTENDS Integers, Sequences, FiniteSets, TLC

VARIABLES
    \* --- filenameToSlug applied to one input, then to its own output
    nameOrPath,     \* the argument of filenameToSlug
    slug,           \* filenameToSlug(nameOrPath), once slugPc # "input"
    reslug,         \* filenameToSlug(slug), once slugPc = "reslugged"
    slugPc,
    \* --- the Note Indexer: one scan of a directory tree
    files,                   \* the enumerated root-relative paths, in the walker's order
    scanPc,                  \* "scan", "index" or "done"
    allNotes,                \* the ProcessedNodes built so far
    indexed,                 \* how many nodes of allNotes are in the two maps
    notesMapByFullPathSlug,  \* fullPathSlug -> ProcessedNode
    notesMapBySimpleSlug,    \* simpleSlug -> set of fullPathSlugs
    \* --- parseEnglishSEOResponse applied to one response text
    argResponseText,   \* the first argument: a string or undefined
    argFallbackTitle,  \* the second argument, originalTitle
    respKind,       \* how the text was drawn: "free", "long", "labelled" or "absent"
    fieldT,         \* for a "labelled" text "SEO Title: T\nMeta Description: D": T
    fieldD,         \* and D
    parsed,         \* the SEOData returned, once parsePc = "parsed"
    parseDef,       \* which of the two definitions of the parser returned it
    parsePc,
    \* --- one call of markdownToSEO
    argTitle,        \* the argument originalTitle
    argContent,      \* the argument content
    argConfig,       \* the argument config: the two thresholds, each a number or undefined
    seoDef,          \* which of the two definitions of the file runs: 1 or 2
    seoPc,           \* "called", "loading" (await pipeline), "generating" (await
                     \* generator) or "returned"
    prompt,          \* the prompt the generator is invoked with
    generatorOutputs,         \* what the generator returned
    pipelineLoads,   \* calls of pipeline()
    generatorCalls,  \* calls of the generator
    seoTrace,        \* the gates passed and the awaits reached, in order
    seoResult,       \* the promise of markdownToSEO
    \* --- one call of isLikelyEnglish
    argText,         \* the argument text
    scriptIndex,     \* the position of the for loop in nonEnglishScripts
    likelyEnglish,   \* the value returned, once langPc = "returned"
    langPc           \* "called", "loop" or "returned"

slugVars == <<nameOrPath, slug, reslug, slugPc>>
scanVars == <<files, scanPc, allNotes, indexed, notesMapByFullPathSlug,
              notesMapBySimpleSlug>>
parseVars == <<argResponseText, argFallbackTitle, respKind, fieldT, fieldD, parsed,
               parseDef, parsePc>>
seoVars == <<argTitle, argContent, argConfig, seoDef, seoPc, prompt, generatorOutputs,
             pipelineLoads, generatorCalls, seoTrace, seoResult>>
langVars == <<argText, scriptIndex, likelyEnglish, langPc>>
vars == <<slugVars, scanVars, parseVars, seoVars, langVars>>

(***************************************************************************)
(* Bounds of the model.                                                    *)
(***************************************************************************)
\* pieces (characters, or the ".md" extension) an enumerated file name is made of
MaxNamePieces == 4
\* files one scan enumerates
MaxFiles == 3
\* pieces (labels, characters) a free response text is made of
MaxRespPieces == 4
\* pieces (characters) a title or description of a labelled response is made of
MaxFieldPieces == 3
\* pieces (a word, white space) a content is made of
MaxContentPieces == 3
\* the greatest threshold a config sets
MaxConfigWords == 2
\* results in the list a generator returns
MaxResults == 2
\* pieces (characters) a text given to isLikelyEnglish is made of
MaxTextPieces == 3

(***************************************************************************)
(* Strings.                                                                *)
(***************************************************************************)
RECURSIVE Concat(_)
\* the concatenation of a sequence of strings
Concat(ss) == IF ss = <<>> THEN <<>> ELSE Head(ss) \o Concat(Tail(ss))

\* every string made of at most n pieces of the set pieces
StringsOf(pieces, n) == { Concat(ps) : ps \in UNION { [1..k -> pieces] : k \in 0..n } }

\* ECMAScript WhiteSpace and LineTerminator code units: what \s matches and trim() removes
WhiteSpaceChars ==
    {9, 10, 11, 12, 13, 32, 160, 5760, 8232, 8233, 8239, 8287, 12288, 65279}
        \cup (8192..8202)

IsWhiteSpace(c) == c \in WhiteSpaceChars

RECURSIVE FirstNonWs(_, _)
\* the least index >= i of a character of s that is no white space, or Len(s) + 1
FirstNonWs(s, i) ==
    IF i > Len(s) THEN i
    ELSE IF IsWhiteSpace(s[i]) THEN FirstNonWs(s, i + 1) ELSE i

RECURSIVE LastNonWs(_, _)
\* the greatest index <= i of a character of s that is no white space, or 0
LastNonWs(s, i) ==
    IF i < 1 THEN 0
    ELSE IF IsWhiteSpace(s[i]) THEN LastNonWs(s, i - 1) ELSE i

\* String.prototype.trim
Trim(s) == SubSeq(s, FirstNonWs(s, 1), LastNonWs(s, Len(s)))

\* the lower-case mapping of one code unit, for the cased characters that can turn
\* into a character the slug keeps: A-Z, and KELVIN SIGN (U+212A), whose lower case
\* is "k"
LowerChar(c) ==
    IF c \in 65..90 THEN c + 32
    ELSE IF c = 8490 THEN 107
    ELSE c

\* String.prototype.toLowerCase
ToLowerCase(s) == [i \in 1..Len(s) |-> LowerChar(s[i])]

RECURSIVE ReplaceWhitespaceRuns(_, _)
\* .replace(/\s+/g, "-") from index i on: every maximal run of white space becomes "-"
ReplaceWhitespaceRuns(s, i) ==
    IF i > Len(s) THEN <<>>
    ELSE IF IsWhiteSpace(s[i])
         THEN <<45>> \o ReplaceWhitespaceRuns(s, FirstNonWs(s, i))
         ELSE <<s[i]>> \o ReplaceWhitespaceRuns(s, i + 1)

\* .replace(/_/g, "-")
ReplaceUnderscores(s) == [i \in 1..Len(s) |-> IF s[i] = 95 THEN 45 ELSE s[i]]

\* the class [a-z0-9\uAC00-\uD7A3-]
IsSlugChar(c) ==
    \/ c \in 97..122
    \/ c \in 48..57
    \/ c \in 44032..55203
    \/ c = 45

\* .replace(/[^a-z0-9\uAC00-\uD7A3-]+/g, "")
RemoveNonSlugChars(s) == SelectSeq(s, IsSlugChar)

RECURSIVE CollapseHyphens(_, _)
\* .replace(/-+/g, "-") from index i on
CollapseHyphens(s, i) ==
    IF i > Len(s) THEN <<>>
    ELSE IF s[i] = 45 /\ i > 1 /\ s[i - 1] = 45
         THEN CollapseHyphens(s, i + 1)
         ELSE <<s[i]>> \o CollapseHyphens(s, i + 1)

RECURSIVE FirstNonHyphen(_, _)
FirstNonHyphen(s, i) ==
    IF i > Len(s) THEN i
    ELSE IF s[i] = 45 THEN FirstNonHyphen(s, i + 1) ELSE i

RECURSIVE LastNonHyphen(_, _)
LastNonHyphen(s, i) ==
    IF i < 1 THEN 0
    ELSE IF s[i] = 45 THEN LastNonHyphen(s, i - 1) ELSE i

\* .replace(/^-+|-+$/g, "")
TrimHyphens(s) == SubSeq(s, FirstNonHyphen(s, 1), LastNonHyphen(s, Len(s)))

\* the extension ".md"
MdExtension == <<46, 109, 100>>

\* .replace(/\.md$/, ""): the pattern has no m flag, so $ is the end of the input
RemoveMdExtension(s) ==
    IF Len(s) >= 3 /\ SubSeq(s, Len(s) - 2, Len(s)) = MdExtension
    THEN SubSeq(s, 1, Len(s) - 3)
    ELSE s

\* .replace(/\\/g, "/")
NormalizeSeparators(s) == [i \in 1..Len(s) |-> IF s[i] = 92 THEN 47 ELSE s[i]]

RECURSIVE SplitFrom(_, _, _, _)
\* the pieces of s between the occurrences of the character sep, from index i on;
\* start is the index the current piece begins at
SplitFrom(s, sep, start, i) ==
    IF i > Len(s) THEN << SubSeq(s, start, Len(s)) >>
    ELSE IF s[i] = sep
         THEN << SubSeq(s, start, i - 1) >> \o SplitFrom(s, sep, i + 1, i + 1)
         ELSE SplitFrom(s, sep, start, i + 1)

\* String.prototype.split(sep) for a one-character separator
Split(s, sep) == SplitFrom(s, sep, 1, 1)

RECURSIVE JoinRange(_, _, _, _)
\* parts[lo], ..., parts[hi] with sep between them
JoinRange(parts, sep, lo, hi) ==
    IF lo > hi THEN <<>>
    ELSE IF lo = hi THEN parts[lo]
    ELSE LET mid == (lo + hi) \div 2
         IN  JoinRange(parts, sep, lo, mid) \o sep \o JoinRange(parts, sep, mid + 1, hi)

\* Array.prototype.join(sep)
Join(parts, sep) == JoinRange(parts, sep, 1, Len(parts))

(***************************************************************************)
(* core/utils/slugify.ts                                                   *)
(***************************************************************************)
\* mutation of SlugSegment: the leading and trailing hyphens are stripped before
\* the other characters are removed, so a hyphen behind a removed first character
\* stays at the front of the slug
SlugSegmentTrimFirst(segment) ==
    CollapseHyphens(
        RemoveNonSlugChars(
            TrimHyphens(
                ReplaceUnderscores(
                    ReplaceWhitespaceRuns(ToLowerCase(Trim(segment)), 1)))), 1)

\* the callback of .map(): one path segment to its slug
SlugSegment(segment) ==
    TrimHyphens(
        CollapseHyphens(
            RemoveNonSlugChars(
                ReplaceUnderscores(
                    ReplaceWhitespaceRuns(ToLowerCase(Trim(segment)), 1))), 1))

\* mutation of filenameToSlug: the segments that became empty are not dropped
filenameToSlugKeepEmpty(x) ==
    IF x = <<>> THEN <<>>
    ELSE LET stripped == NormalizeSeparators(RemoveMdExtension(x))
             segments == Split(stripped, 47)
             mapped   == [i \in 1..Len(segments) |-> SlugSegment(segments[i])]
         IN  Join(mapped, <<47>>)

filenameToSlug(x) ==
    IF x = <<>> THEN <<>>
    ELSE LET stripped == NormalizeSeparators(RemoveMdExtension(x))
             segments == Split(stripped, 47)
             mapped   == [i \in 1..Len(segments) |-> SlugSegment(segments[i])]
             kept     == SelectSeq(mapped, LAMBDA seg : Len(seg) > 0)
         IN  Join(kept, <<47>>)

(***************************************************************************)
(* llm/mdToSEO.ts: the response parser.                                    *)
(***************************************************************************)
\* an absent value (undefined)
Undefined == [defined |-> FALSE, value |-> <<>>]

\* a present value
Some(v) == [defined |-> TRUE, value |-> v]

\* the canonical form of a code unit under the i flag of a pattern without the u
\* flag: the upper case, for ASCII letters; no other character the patterns of
\* this file can match has an ASCII upper case the flag honours
Canonicalize(c) == IF c \in 97..122 THEN c - 32 ELSE c

\* pat matches s at index i, case-insensitively
MatchesAt(s, i, pat) ==
    /\ i >= 1
    /\ i + Len(pat) - 1 <= Len(s)
    /\ \A k \in 1..Len(pat) : Canonicalize(s[i + k - 1]) = Canonicalize(pat[k])

\* the least index >= from at which pat matches s, or 0
IndexOf(s, pat, from) ==
    LET hits == { i \in from..(Len(s) - Len(pat) + 1) : MatchesAt(s, i, pat) }
    IN  IF hits = {} THEN 0 ELSE CHOOSE i \in hits : \A j \in hits : i <= j

\* "SEO Title:"
SeoTitleLabel == <<83, 69, 79, 32, 84, 105, 116, 108, 101, 58>>

\* "Meta Description:"
MetaDescriptionLabel ==
    <<77, 101, 116, 97, 32, 68, 101, 115, 99, 114, 105, 112, 116, 105, 111, 110, 58>>

\* the result of String.prototype.match: null, or the first capture group
NoMatch == [matched |-> FALSE, group |-> <<>>]

\* mutation of TitleMatch: a greedy group, which runs to the end of the text
TitleMatchGreedy(text) ==
    LET i == IndexOf(text, SeoTitleLabel, 1)
    IN  IF i = 0 THEN NoMatch
        ELSE [ matched |-> TRUE,
               group   |-> SubSeq(text, i + Len(SeoTitleLabel), Len(text)) ]

\* responseText.match(/SEO Title:(.*?)(?:\nMeta Description:|$)/is): the match
\* starts at the first label; the lazy group ends before the first line feed that
\* the other label follows, or at the end of the text
TitleMatch(text) ==
    LET i == IndexOf(text, SeoTitleLabel, 1)
    IN  IF i = 0 THEN NoMatch
        ELSE LET from == i + Len(SeoTitleLabel)
                 j    == IndexOf(text, <<10>> \o MetaDescriptionLabel, from)
             IN  [ matched |-> TRUE,
                   group   |-> SubSeq(text, from, IF j = 0 THEN Len(text) ELSE j - 1) ]

\* responseText.match(/Meta Description:(.*)$/is): the greedy group runs from the
\* first label to the end of the text
DescriptionMatch(text) ==
    LET i == IndexOf(text, MetaDescriptionLabel, 1)
    IN  IF i = 0 THEN NoMatch
        ELSE [ matched |-> TRUE,
               group   |-> SubSeq(text, i + Len(MetaDescriptionLabel), Len(text)) ]

\* responseText.replace(/SEO Title:.*?(\n|$)/is, ""): the first label and what
\* follows it up to and including the next line feed (or the end) are removed
RemoveTitlePart(text) ==
    LET i == IndexOf(text, SeoTitleLabel, 1)
    IN  IF i = 0 THEN text
        ELSE LET j == IndexOf(text, <<10>>, i + Len(SeoTitleLabel))
             IN  SubSeq(text, 1, i - 1)
                     \o (IF j = 0 THEN <<>> ELSE SubSeq(text, j + 1, Len(text)))

\* String.prototype.substring(start, end): both clamped to 0..length, and swapped
\* when start > end
Substring(s, start, end) ==
    LET clamp(n) == IF n < 0 THEN 0 ELSE IF n > Len(s) THEN Len(s) ELSE n
        a == clamp(start)
        b == clamp(end)
    IN  IF a <= b THEN SubSeq(s, a + 1, b) ELSE SubSeq(s, b + 1, a)

\* if (s.startsWith('"') && s.endsWith('"')) s = s.substring(1, s.length - 1)
StripQuotes(s) ==
    IF Len(s) > 0 /\ s[1] = 34 /\ s[Len(s)] = 34
    THEN Substring(s, 1, Len(s) - 1)
    ELSE s

\* the length the unlabelled description is truncated to
DescriptionLimit == 160

\* mutation of SeoDescription: the fallback does not truncate
SeoDescriptionUntruncated(text, titleMatch, seoTitle, originalTitle) ==
    LET descriptionMatch == DescriptionMatch(text)
    IN  IF descriptionMatch.matched /\ Trim(descriptionMatch.group) # <<>>
        THEN Some(StripQuotes(Trim(descriptionMatch.group)))
        ELSE IF ~titleMatch.matched /\ Trim(text) # <<>>
        THEN LET cleanedResponse == Trim(RemoveTitlePart(text))
             IN  IF cleanedResponse # <<>> /\ seoTitle = originalTitle
                 THEN Some(StripQuotes(cleanedResponse))
                 ELSE Undefined
        ELSE Undefined

\* the description of parseEnglishSEOResponse, the same in both definitions: the
\* text after the "Meta Description:" label, or else, when no "SEO Title:" label
\* matched, the start of the whole text
SeoDescription(text, titleMatch, seoTitle, originalTitle) ==
    LET descriptionMatch == DescriptionMatch(text)
    IN  IF descriptionMatch.matched /\ Trim(descriptionMatch.group) # <<>>
        THEN Some(StripQuotes(Trim(descriptionMatch.group)))
        ELSE IF ~titleMatch.matched /\ Trim(text) # <<>>
        THEN LET cleanedResponse == Trim(RemoveTitlePart(text))
             IN  IF cleanedResponse # <<>> /\ seoTitle = originalTitle
                 THEN Some(StripQuotes(Substring(cleanedResponse, 0, DescriptionLimit)))
                 ELSE Undefined
        ELSE Undefined

\* the SEOData of a response without text
NoResponseSeo(originalTitle) ==
    [title |-> Some(originalTitle), description |-> Undefined, keywords |-> Undefined]

\* parseEnglishSEOResponse, the first definition of the file: the quotes around the
\* title are removed
parseEnglishSEOResponse(responseText, originalTitle) ==
    IF ~responseText.defined \/ responseText.value = <<>>
    THEN NoResponseSeo(originalTitle)
    ELSE LET text       == responseText.value
             titleMatch == TitleMatch(text)
             seoTitle   == IF titleMatch.matched /\ Trim(titleMatch.group) # <<>>
                           THEN StripQuotes(Trim(titleMatch.group))
                           ELSE originalTitle
         IN  [ title       |-> Some(seoTitle),
               description |-> SeoDescription(text, titleMatch, seoTitle, originalTitle),
               keywords    |-> Undefined ]

\* parseEnglishSEOResponse, the second definition of the file: the title keeps its
\* quotes
parseEnglishSEOResponse2(responseText, originalTitle) ==
    IF ~responseText.defined \/ responseText.value = <<>>
    THEN NoResponseSeo(originalTitle)
    ELSE LET text       == responseText.value
             titleMatch == TitleMatch(text)
             seoTitle   == IF titleMatch.matched /\ Trim(titleMatch.group) # <<>>
                           THEN Trim(titleMatch.group)
                           ELSE originalTitle
         IN  [ title       |-> Some(seoTitle),
               description |-> SeoDescription(text, titleMatch, seoTitle, originalTitle),
               keywords    |-> Undefined ]

(***************************************************************************)
(* llm/mdToSEO.ts: the language heuristic, the prompt and markdownToSEO.   *)
(***************************************************************************)
\* the character classes of nonEnglishScripts, in the order they are tested:
\* [U+3131-U+D79D U+AC00-U+D7AF] (Hangul), [U+3040-U+309F U+30A0-U+30FF] (Hiragana,
\* Katakana), [U+4E00-U+9FFF] (CJK Unified Ideographs), [U+0400-U+04FF] (Cyrillic)
NonEnglishScripts ==
    << (12593..55197) \cup (44032..55215),
       (12352..12447) \cup (12448..12543),
       19968..40959,
       1024..1279 >>

\* mutation of ScriptTest: the pattern is anchored at the start of the text
ScriptTestAtStart(k, text) == Len(text) > 0 /\ text[1] \in NonEnglishScripts[k]

\* scriptRegex.test(text)
ScriptTest(k, text) == \E i \in 1..Len(text) : text[i] \in NonEnglishScripts[k]

isLikelyEnglish(text) ==
    IF text = <<>> THEN TRUE
    ELSE ~(\E k \in 1..Len(NonEnglishScripts) : ScriptTest(k, text))

\* the template of the prompt up to the title
PromptHead ==
    << 66, 97, 115, 101, 100, 32, 111, 110, 32, 116, 104, 101, 32, 111, 114,
       105, 103, 105, 110, 97, 108, 32, 116, 105, 116, 108, 101, 32, 97, 110,
       100, 32, 99, 111, 110, 116, 101, 110, 116, 32, 101, 120, 99, 101, 114,
       112, 116, 32, 111, 102, 32, 116, 104, 101, 32, 102, 111, 108, 108, 111,
       119, 105, 110, 103, 32, 98, 108, 111, 103, 32, 112, 111, 115, 116, 58,
       10, 79, 114, 105, 103, 105, 110, 97, 108, 32, 84, 105, 116, 108, 101, 58,
       32, 34 >>

\* the template between the title and the excerpt
PromptMiddle ==
    << 34, 10, 67, 111, 110, 116, 101, 110, 116, 32, 69, 120, 99, 101, 114, 112,
       116, 58, 32, 34 >>

\* the template after the excerpt
PromptTail ==
    << 34, 10, 10, 80, 108, 101, 97, 115, 101, 32, 103, 101, 110, 101, 114, 97,
       116, 101, 32, 97, 110, 32, 83, 69, 79, 45, 111, 112, 116, 105, 109, 105,
       122, 101, 100, 32, 116, 105, 116, 108, 101, 32, 40, 97, 114, 111, 117,
       110, 100, 32, 53, 48, 45, 55, 48, 32, 99, 104, 97, 114, 97, 99, 116, 101,
       114, 115, 41, 32, 97, 110, 100, 32, 97, 32, 109, 101, 116, 97, 32, 100,
       101, 115, 99, 114, 105, 112, 116, 105, 111, 110, 32, 40, 97, 114, 111,
       117, 110, 100, 32, 49, 48, 48, 45, 49, 54, 48, 32, 99, 104, 97, 114, 97,
       99, 116, 101, 114, 115, 41, 46, 10, 10, 82, 101, 115, 112, 111, 110, 100,
       32, 105, 110, 32, 116, 104, 101, 32, 102, 111, 108, 108, 111, 119, 105,
       110, 103, 32, 102, 111, 114, 109, 97, 116, 44, 32, 117, 115, 105, 110,
       103, 32, 116, 104, 101, 115, 101, 32, 101, 120, 97, 99, 116, 32, 108, 97,
       98, 101, 108, 115, 46, 32, 68, 111, 32, 110, 111, 116, 32, 105, 110, 99,
       108, 117, 100, 101, 32, 97, 110, 121, 32, 111, 116, 104, 101, 114, 32,
       99, 111, 110, 118, 101, 114, 115, 97, 116, 105, 111, 110, 32, 111, 114,
       32, 101, 120, 112, 108, 97, 110, 97, 116, 105, 111, 110, 115, 58, 10, 83,
       69, 79, 32, 84, 105, 116, 108, 101, 58, 32, 91, 89, 111, 117, 114, 32,
       115, 117, 103, 103, 101, 115, 116, 101, 100, 32, 83, 69, 79, 32, 116,
       105, 116, 108, 101, 32, 104, 101, 114, 101, 93, 10, 77, 101, 116, 97, 32,
       68, 101, 115, 99, 114, 105, 112, 116, 105, 111, 110, 58, 32, 91, 89, 111,
       117, 114, 32, 115, 117, 103, 103, 101, 115, 116, 101, 100, 32, 109, 101,
       116, 97, 32, 100, 101, 115, 99, 114, 105, 112, 116, 105, 111, 110, 32,
       104, 101, 114, 101, 93, 10, 10, 73, 102, 32, 105, 116, 39, 115, 32, 100,
       105, 102, 102, 105, 99, 117, 108, 116, 32, 116, 111, 32, 103, 101, 110,
       101, 114, 97, 116, 101, 32, 97, 32, 98, 101, 116, 116, 101, 114, 32, 116,
       105, 116, 108, 101, 44, 32, 121, 111, 117, 32, 99, 97, 110, 32, 117, 115,
       101, 32, 111, 114, 32, 115, 108, 105, 103, 104, 116, 108, 121, 32, 109,
       111, 100, 105, 102, 121, 32, 116, 104, 101, 32, 111, 114, 105, 103, 105,
       110, 97, 108, 32, 116, 105, 116, 108, 101, 46 >>

constructEnglishSEOPrompt(originalTitle, contentExcerpt) ==
    Trim(<<10>> \o PromptHead \o originalTitle \o PromptMiddle \o contentExcerpt
            \o PromptTail \o <<10>>)

\* the least index >= i of a white space character of s, or Len(s) + 1
RECURSIVE FirstWs(_, _)
FirstWs(s, i) ==
    IF i > Len(s) THEN i
    ELSE IF IsWhiteSpace(s[i]) THEN i ELSE FirstWs(s, i + 1)

RECURSIVE Ascending(_, _, _)
\* the numbers of the set S that lie in lo..hi, in ascending order
Ascending(S, lo, hi) ==
    IF lo > hi THEN <<>>
    ELSE IF lo = hi THEN (IF lo \in S THEN <<lo>> ELSE <<>>)
    ELSE LET mid == (lo + hi) \div 2
         IN  Ascending(S, lo, mid) \o Ascending(S, mid + 1, hi)

\* content.split(/\s+/): the tokens between the runs of white space; the first is
\* empty when the text begins with white space, the last when it ends with it. A
\* token begins at index 1 and after every run of white space
SplitWhitespace(s) ==
    LET n      == Len(s)
        starts == {1} \cup { i \in 2..(n + 1) :
                               IsWhiteSpace(s[i - 1]) /\ (i = n + 1 \/ ~IsWhiteSpace(s[i])) }
        order  == Ascending(starts, 1, n + 1)
    IN  [k \in 1..Len(order) |-> SubSeq(s, order[k], FirstWs(s, order[k]) - 1)]

\* content.split(/\s+/).filter(Boolean).length
WordCount(content) ==
    Len(SelectSeq(SplitWhitespace(content), LAMBDA token : token # <<>>))

\* Array.prototype.slice(0, n), for n >= 0
SliceTo(a, n) == SubSeq(a, 1, IF n < Len(a) THEN n ELSE Len(a))

\* content.split(/\s+/).slice(0, maxContentLengthForPrompt).join(" ")
ContentExcerpt(content, maxContentLengthForPrompt) ==
    Join(SliceTo(SplitWhitespace(content), maxContentLengthForPrompt), <<32>>)

\* the default of minContentLengthForSeo
DefaultMinContentLengthForSeo == 50

\* the default of maxContentLengthForPrompt
DefaultMaxContentLengthForPrompt == 250

\* const { minContentLengthForSeo = config.minContentLengthForSeo || 50 } = config:
\* the default stands in for an undefined property only
MinContentLengthForSeo(config) ==
    IF config.minContentLengthForSeo.defined
    THEN config.minContentLengthForSeo.value
    ELSE DefaultMinContentLengthForSeo

MaxContentLengthForPrompt(config) ==
    IF config.maxContentLengthForPrompt.defined
    THEN config.maxContentLengthForPrompt.value
    ELSE DefaultMaxContentLengthForPrompt

\* mutation of PassesLengthGate: a content of exactly the minimum is rejected too
PassesLengthGateStrict(content, config) ==
    ~(WordCount(content) <= MinContentLengthForSeo(config))

\* the length gate: if (wordCount < minContentLengthForSeo) return undefined
PassesLengthGate(content, config) ==
    ~(WordCount(content) < MinContentLengthForSeo(config))

\* mutation of PassesLanguageGate: the content is tested instead of the title
PassesLanguageGateOnContent(originalTitle, content) == isLikelyEnglish(content)

\* the language gate: if (!isLikelyEnglish(originalTitle)) return undefined
PassesLanguageGate(originalTitle, content) == isLikelyEnglish(originalTitle)

\* an element of the outputs that is null or undefined
NullResult == [isNull |-> TRUE, generated_text |-> Undefined]

\* an element of the outputs that is an object; generated_text is a string or not
Result(text) == [isNull |-> FALSE, generated_text |-> text]

\* no outputs yet
NoOutputs == [isArray |-> FALSE, results |-> <<>>]

\* the outcome of the statements that read generated_text off the outputs: whether
\* they threw a TypeError (a property of null read), and generatedText
Extracted(threw, text) == [threw |-> threw, generatedText |-> text]

\* mutation of ExtractGeneratedText: a list of results is not accepted
ExtractGeneratedTextObjectOnly(outputs) ==
    IF outputs.isArray
    THEN Extracted(FALSE, Undefined)
    ELSE IF outputs.results[1].isNull THEN Extracted(TRUE, Undefined)
    ELSE Extracted(FALSE, outputs.results[1].generated_text)

\* generatedText of the outputs: generated_text of the first element of an array,
\* or of the object itself, when it is a string
ExtractGeneratedText(outputs) ==
    IF outputs.isArray
    THEN IF Len(outputs.results) > 0
         THEN IF outputs.results[1].isNull THEN Extracted(TRUE, Undefined)
              ELSE Extracted(FALSE, outputs.results[1].generated_text)
         ELSE Extracted(FALSE, Undefined)
    ELSE IF outputs.results[1].isNull THEN Extracted(TRUE, Undefined)
    ELSE Extracted(FALSE, outputs.results[1].generated_text)

\* a promise of markdownToSEO
Pending == [status |-> "pending", value |-> Undefined]

\* return value
Resolved(value) == [status |-> "resolved", value |-> value]

\* an exception that leaves the function
Rejected == [status |-> "rejected", value |-> Undefined]

\* mutation of Catch: the error is thrown again
CatchRethrow == Rejected

\* catch (error) { console.error(...); return undefined; }
Catch == Resolved(Undefined)

\* if (generatedText) return parseEnglishSEOResponse(generatedText, originalTitle);
\* else return undefined; def is the definition of the file that runs
ReturnGenerated(def, generatedText, originalTitle) ==
    IF generatedText.defined /\ generatedText.value # <<>>
    THEN Resolved(Some(IF def = 1
                       THEN parseEnglishSEOResponse(generatedText, originalTitle)
                       ELSE parseEnglishSEOResponse2(generatedText, originalTitle)))
    ELSE Resolved(Undefined)

(***************************************************************************)
(* The parts of the state a specification does not use stay idle.          *)
(***************************************************************************)
SlugIdle ==
    /\ nameOrPath = <<>>
    /\ slug = <<>>
    /\ reslug = <<>>
    /\ slugPc = "idle"

ScanIdle ==
    /\ files = <<>>
    /\ scanPc = "idle"
    /\ allNotes = <<>>
    /\ indexed = 0
    /\ notesMapByFullPathSlug = <<>>
    /\ notesMapBySimpleSlug = <<>>


\* no SEOData yet
NoSeoData == [title |-> Undefined, description |-> Undefined, keywords |-> Undefined]

ParseIdle ==
    /\ argResponseText = Undefined
    /\ argFallbackTitle = <<>>
    /\ respKind = "idle"
    /\ fieldT = <<>>
    /\ fieldD = <<>>
    /\ parsed = NoSeoData
    /\ parseDef = 0
    /\ parsePc = "idle"

\* a config that sets neither threshold
NoConfig == [minContentLengthForSeo |-> Undefined, maxContentLengthForPrompt |-> Undefined]

SeoIdle ==
    /\ argTitle = <<>>
    /\ argContent = <<>>
    /\ argConfig = NoConfig
    /\ seoDef = 0
    /\ seoPc = "idle"
    /\ prompt = <<>>
    /\ generatorOutputs = NoOutputs
    /\ pipelineLoads = 0
    /\ generatorCalls = 0
    /\ seoTrace = <<>>
    /\ seoResult = Pending

LangIdle ==
    /\ argText = <<>>
    /\ scriptIndex = 0
    /\ likelyEnglish = TRUE
    /\ langPc = "idle"

(***************************************************************************)
(* The slug generator applied to a file name, and to its own result.       *)
(***************************************************************************)
\* "a", "B", "1", " ", "_", "-", "/", "\", "!", a Hangul syllable, ".md"
NamePieces ==
    { <<97>>, <<66>>, <<49>>, <<32>>, <<95>>, <<45>>, <<47>>, <<92>>, <<33>>,
      <<54620>>, MdExtension }

\* the argument of the fourth example of the documentation:
\* "  leading-trailing-hyphens--with--multiple.md  "
SurroundedExample ==
    << 32, 32, 108, 101, 97, 100, 105, 110, 103, 45, 116, 114, 97, 105, 108, 105,
       110, 103, 45, 104, 121, 112, 104, 101, 110, 115, 45, 45, 119, 105, 116, 104,
       45, 45, 109, 117, 108, 116, 105, 112, 108, 101, 46, 109, 100, 32, 32 >>

\* the output the documentation gives for it: "leading-trailing-hyphens-with-multiple"
SurroundedExampleOutput ==
    << 108, 101, 97, 100, 105, 110, 103, 45, 116, 114, 97, 105, 108, 105, 110, 103,
       45, 104, 121, 112, 104, 101, 110, 115, 45, 119, 105, 116, 104, 45, 109, 117,
       108, 116, 105, 112, 108, 101 >>

\* the argument of the fifth example: "!@#Special$%^&*Chars(123).md"
SpecialCharsExample ==
    << 33, 64, 35, 83, 112, 101, 99, 105, 97, 108, 36, 37, 94, 38, 42, 67, 104, 97,
       114, 115, 40, 49, 50, 51, 41, 46, 109, 100 >>

\* the output the documentation gives for it: "special-chars123"
SpecialCharsExampleOutput ==
    << 115, 112, 101, 99, 105, 97, 108, 45, 99, 104, 97, 114, 115, 49, 50, 51 >>

\* the arguments of the examples of the documentation: "My Awesome Post.md",
\* "My Folder/Another_Post with_Spaces.md", a Korean name, and the two above
DocumentedExamples ==
    { << 77, 121, 32, 65, 119, 101, 115, 111, 109, 101, 32, 80, 111, 115, 116, 46,
         109, 100 >>,
      << 77, 121, 32, 70, 111, 108, 100, 101, 114, 47, 65, 110, 111, 116, 104, 101,
         114, 95, 80, 111, 115, 116, 32, 119, 105, 116, 104, 95, 83, 112, 97, 99,
         101, 115, 46, 109, 100 >>,
      << 54620, 44544, 32, 54028, 51068, 32, 51060, 47492, 46, 109, 100 >>,
      SurroundedExample, SpecialCharsExample }

NameInputs == StringsOf(NamePieces, MaxNamePieces) \cup DocumentedExamples

InitSlug ==
    /\ nameOrPath \in NameInputs
    /\ slug = <<>>
    /\ reslug = <<>>
    /\ slugPc = "input"
    /\ ScanIdle
    /\ ParseIdle
    /\ SeoIdle
    /\ LangIdle

\* slug = filenameToSlug(nameOrPath)
Slugify ==
    /\ slugPc = "input"
    /\ slug' = filenameToSlug(nameOrPath)
    /\ slugPc' = "slugged"
    /\ UNCHANGED <<langVars, nameOrPath, reslug, scanVars, parseVars, seoVars>>

\* reslug = filenameToSlug(slug)
SlugifyAgain ==
    /\ slugPc = "slugged"
    /\ reslug' = filenameToSlug(slug)
    /\ slugPc' = "reslugged"
    /\ UNCHANGED <<langVars, nameOrPath, slug, scanVars, parseVars, seoVars>>

NextSlug == Slugify \/ SlugifyAgain

SpecSlug == InitSlug /\ [][NextSlug]_vars

\* C1: filenameToSlug is idempotent: for every input x,
\* filenameToSlug(filenameToSlug(x)) = filenameToSlug(x).
SlugIdempotent == slugPc = "reslugged" => reslug = slug

\* a name with an upper-case letter or white space that the first application
\* changed into a slug with a hyphen, which the second application has been
\* applied to
SlugIdempotentWitness ==
    /\ slugPc = "reslugged"
    /\ slug # nameOrPath
    /\ Len(slug) >= 3
    /\ 45 \in { slug[i] : i \in 1..Len(slug) }
    /\ \E i \in 1..Len(nameOrPath) : nameOrPath[i] \in {32, 66}

\* the text ends with the ".md" extension
EndsWithMd(s) ==
    /\ Len(s) >= Len(MdExtension)
    /\ SubSeq(s, Len(s) - Len(MdExtension) + 1, Len(s)) = MdExtension

\* C13: for a file name ending in ".md" with white space before and after it,
\* filenameToSlug ignores the white space and removes the extension, as for the
\* name without the white space; the documented example gives
\* "leading-trailing-hyphens-with-multiple".
SurroundingWhitespaceIgnored ==
    /\ (/\ slugPc # "input"
        /\ Len(nameOrPath) >= 2
        /\ IsWhiteSpace(nameOrPath[1])
        /\ IsWhiteSpace(nameOrPath[Len(nameOrPath)])
        /\ EndsWithMd(Trim(nameOrPath)))
            => slug = filenameToSlug(Trim(nameOrPath))
    /\ (slugPc # "input" /\ nameOrPath = SurroundedExample)
            => slug = SurroundedExampleOutput

\* C14: filenameToSlug("!@#Special$%^&*Chars(123).md") returns "special-chars123".
SpecialCharsExampleSlug ==
    (slugPc # "input" /\ nameOrPath = SpecialCharsExample)
        => slug = SpecialCharsExampleOutput

\* a segment of a slug: not empty, only a-z, 0-9, Hangul syllables and hyphens, no
\* hyphen at either end and no two hyphens in a row
WellFormedSegment(seg) ==
    /\ Len(seg) > 0
    /\ \A i \in 1..Len(seg) : IsSlugChar(seg[i])
    /\ seg[1] # 45
    /\ seg[Len(seg)] # 45
    /\ \A i \in 1..(Len(seg) - 1) : ~(seg[i] = 45 /\ seg[i + 1] = 45)

\* empty, or well-formed segments joined by single "/"
WellFormedSlug(s) ==
    \/ s = <<>>
    \/ LET segments == Split(s, 47)
       IN  \A i \in 1..Len(segments) : WellFormedSegment(segments[i])

\* C17: every output of filenameToSlug is empty or a sequence of non-empty
\* segments joined by single "/", each of a-z, 0-9, Hangul syllables and hyphens
\* only, without a hyphen at either end and without two hyphens in a row.
SlugWellFormed ==
    /\ slugPc # "input" => WellFormedSlug(slug)
    /\ slugPc = "reslugged" => WellFormedSlug(reslug)

\* the slug of a name with a backslash, an empty segment and characters that are
\* removed or replaced: two segments, the second with a hyphen
SlugWellFormedWitness ==
    /\ slugPc # "input"
    /\ \E i \in 1..Len(nameOrPath) : nameOrPath[i] \in {92, 47}
    /\ \E i \in 1..Len(nameOrPath) : nameOrPath[i] \in {32, 95, 33, 66}
    /\ \E i \in 1..Len(slug) : slug[i] = 47
    /\ Len(slug) >= 3
    /\ slug # nameOrPath

(***************************************************************************)
(* One call of isLikelyEnglish: the test for the empty text and the loop   *)
(* over nonEnglishScripts.                                                 *)
(***************************************************************************)
\* "A", " ", e acute (Latin-1), a Hangul syllable, Hiragana a, Katakana a, a CJK
\* ideograph, a Cyrillic letter, the Yi syllable U+A000, the Latin letter
\* saltillo U+A78C
TextPieces ==
    { <<65>>, <<32>>, <<233>>, <<54620>>, <<12354>>, <<12450>>, <<20013>>, <<1103>>,
      <<40960>>, <<42892>> }

Texts == StringsOf(TextPieces, MaxTextPieces)

InitLang ==
    /\ argText \in Texts
    /\ scriptIndex = 0
    /\ likelyEnglish = TRUE
    /\ langPc = "called"
    /\ SlugIdle
    /\ ScanIdle
    /\ ParseIdle
    /\ SeoIdle

\* if (!text) return true
EmptyText ==
    /\ langPc = "called"
    /\ argText = <<>>
    /\ likelyEnglish' = TRUE
    /\ langPc' = "returned"
    /\ UNCHANGED <<argText, scriptIndex, slugVars, scanVars, parseVars, seoVars>>

\* the text is not empty: the loop starts at the first pattern
EnterLoop ==
    /\ langPc = "called"
    /\ argText # <<>>
    /\ scriptIndex' = 1
    /\ langPc' = "loop"
    /\ UNCHANGED <<argText, likelyEnglish, slugVars, scanVars, parseVars, seoVars>>

\* if (scriptRegex.test(text)) return false
ScriptFound ==
    /\ langPc = "loop"
    /\ scriptIndex <= Len(NonEnglishScripts)
    /\ ScriptTest(scriptIndex, argText)
    /\ likelyEnglish' = FALSE
    /\ langPc' = "returned"
    /\ UNCHANGED <<argText, scriptIndex, slugVars, scanVars, parseVars, seoVars>>

\* the pattern does not match: the loop goes on to the next one
ScriptNotFound ==
    /\ langPc = "loop"
    /\ scriptIndex <= Len(NonEnglishScripts)
    /\ ~ScriptTest(scriptIndex, argText)
    /\ scriptIndex' = scriptIndex + 1
    /\ UNCHANGED <<argText, likelyEnglish, langPc, slugVars, scanVars, parseVars,
                   seoVars>>

\* the loop is over: return true
NoScriptFound ==
    /\ langPc = "loop"
    /\ scriptIndex > Len(NonEnglishScripts)
    /\ likelyEnglish' = TRUE
    /\ langPc' = "returned"
    /\ UNCHANGED <<argText, scriptIndex, slugVars, scanVars, parseVars, seoVars>>

NextLang == EmptyText \/ EnterLoop \/ ScriptFound \/ ScriptNotFound \/ NoScriptFound

SpecLang == InitLang /\ [][NextLang]_vars

\* the characters of the text
Chars(s) == { s[i] : i \in 1..Len(s) }

\* the loop returns what the operator isLikelyEnglish, used by markdownToSEO, gives
LoopIsOperator == langPc = "returned" => likelyEnglish = isLikelyEnglish(argText)

\* the Hangul syllables U+AC00-U+D7A3 and the blocks Hiragana, Katakana, CJK
\* Unified Ideographs and Cyrillic
RejectedChars ==
    (44032..55203) \cup (12352..12447) \cup (12448..12543) \cup (19968..40959)
        \cup (1024..1279)

\* C11: isLikelyEnglish is a presence test: a text with at least one character in
\* U+AC00-U+D7A3, or one Hiragana, Katakana, CJK Unified Ideograph or Cyrillic
\* character, at any position and among any other characters, yields false.
SingleHitRejects ==
    (langPc = "returned" /\ Chars(argText) \cap RejectedChars # {})
        => likelyEnglish = FALSE

\* a returned call on a text whose only character of those scripts is its last
\* one, behind two Latin characters
SingleHitRejectsWitness ==
    /\ langPc = "returned"
    /\ Len(argText) = 3
    /\ argText[1] = 65
    /\ argText[2] \in {65, 32}
    /\ argText[3] \in RejectedChars
    /\ likelyEnglish = FALSE

\* every BMP character of the scripts the code lists: Hangul (Jamo, Compatibility
\* Jamo, Jamo Extended-A, Syllables, Jamo Extended-B), Hiragana and Katakana (with
\* the Phonetic Extensions), CJK ideographs (Radicals, Symbols, Extension A,
\* Unified Ideographs, Compatibility Ideographs), Cyrillic (with Supplement and
\* Extended-A, -B, -C)
ListedScriptChars ==
    (4352..4607) \cup (12592..12687) \cup (43360..43391) \cup (44032..55295)
        \cup (12352..12543) \cup (12784..12799)
        \cup (11904..12351) \cup (13312..19903) \cup (19968..40959) \cup (63744..64255)
        \cup (1024..1327) \cup (11744..11775) \cup (42560..42655) \cup (7296..7311)

\* C12: isLikelyEnglish returns true for every text with no character of a listed
\* script (Hangul, Hiragana/Katakana, CJK Unified Ideographs, Cyrillic), in
\* particular for the empty text and every pure-ASCII text.
NoListedScriptAccepts ==
    (langPc = "returned" /\ Chars(argText) \cap ListedScriptChars = {})
        => likelyEnglish = TRUE

\* the part of C12 about the empty text and the pure-ASCII texts
AsciiAccepts ==
    (langPc = "returned" /\ Chars(argText) \subseteq 0..127) => likelyEnglish = TRUE

(***************************************************************************)
(* The Note Indexer (core/scanAndProcessNotes): for each enumerated file a *)
(* ProcessedNode, then the two lookup maps.                                *)
(***************************************************************************)
\* the file name of a root-relative, forward-slash path: what follows the last "/"
Basename(path) == LET parts == Split(path, 47) IN parts[Len(parts)]

\* the ProcessedNode of one enumerated file; the title is the file name without its
\* extension, in its original casing
ProcessedNode(path) ==
    [ id           |-> filenameToSlug(path),
      title        |-> RemoveMdExtension(Basename(path)),
      filePath     |-> path,
      fullPathSlug |-> filenameToSlug(path),
      simpleSlug   |-> filenameToSlug(Basename(path)) ]

\* Map.prototype.set
MapSet(map, key, value) ==
    [ k \in DOMAIN map \cup {key} |-> IF k = key THEN value ELSE map[k] ]

\* the paths the walker can enumerate:
\* "a/n.md", "b/n.md", "n.md", "N.md", "a b.md", "a_b.md", "!.md"
ScanPaths ==
    { <<97, 47, 110>> \o MdExtension, <<98, 47, 110>> \o MdExtension,
      <<110>> \o MdExtension, <<78>> \o MdExtension,
      <<97, 32, 98>> \o MdExtension, <<97, 95, 98>> \o MdExtension,
      <<33>> \o MdExtension }

\* the walker yields each file once: the paths of one scan are pairwise distinct
FileLists ==
    { fs \in UNION { [1..k -> ScanPaths] : k \in 0..MaxFiles } :
        \A i, j \in DOMAIN fs : i # j => fs[i] # fs[j] }

InitScan ==
    /\ files \in FileLists
    /\ scanPc = "scan"
    /\ allNotes = <<>>
    /\ indexed = 0
    /\ notesMapByFullPathSlug = <<>>
    /\ notesMapBySimpleSlug = <<>>
    /\ SlugIdle
    /\ ParseIdle
    /\ SeoIdle
    /\ LangIdle

\* the next enumerated file becomes a ProcessedNode of allNotes
ProcessFile ==
    /\ scanPc = "scan"
    /\ Len(allNotes) < Len(files)
    /\ allNotes' = Append(allNotes, ProcessedNode(files[Len(allNotes) + 1]))
    /\ UNCHANGED <<langVars, files, scanPc, indexed, notesMapByFullPathSlug,
                   notesMapBySimpleSlug, slugVars, parseVars, seoVars>>

\* every file has its node: the maps are built next
StartIndex ==
    /\ scanPc = "scan"
    /\ Len(allNotes) = Len(files)
    /\ scanPc' = "index"
    /\ UNCHANGED <<langVars, files, allNotes, indexed, notesMapByFullPathSlug,
                   notesMapBySimpleSlug, slugVars, parseVars, seoVars>>

\* the next node is inserted into both maps: keyed by its fullPathSlug (a later
\* node with the same key overwrites the earlier one), and its fullPathSlug into
\* the set keyed by its simpleSlug, created on first encounter
IndexNote ==
    /\ scanPc = "index"
    /\ indexed < Len(allNotes)
    /\ LET node == allNotes[indexed + 1]
           old  == IF node.simpleSlug \in DOMAIN notesMapBySimpleSlug
                   THEN notesMapBySimpleSlug[node.simpleSlug]
                   ELSE {}
       IN  /\ notesMapByFullPathSlug' =
                  MapSet(notesMapByFullPathSlug, node.fullPathSlug, node)
           /\ notesMapBySimpleSlug' =
                  MapSet(notesMapBySimpleSlug, node.simpleSlug,
                         old \cup {node.fullPathSlug})
    /\ indexed' = indexed + 1
    /\ UNCHANGED <<langVars, files, scanPc, allNotes, slugVars, parseVars, seoVars>>

\* the ScanResult is returned
FinishScan ==
    /\ scanPc = "index"
    /\ indexed = Len(allNotes)
    /\ scanPc' = "done"
    /\ UNCHANGED <<langVars, files, allNotes, indexed, notesMapByFullPathSlug,
                   notesMapBySimpleSlug, slugVars, parseVars, seoVars>>

NextScan == ProcessFile \/ StartIndex \/ IndexNote \/ FinishScan

SpecScan == InitScan /\ [][NextScan]_vars

\* C2: the files' paths being pairwise distinct, no two notes of a scan result
\* share a fullPathSlug.
UniqueFullPathSlug ==
    scanPc = "done" =>
        \A i, j \in DOMAIN allNotes :
            i # j => allNotes[i].fullPathSlug # allNotes[j].fullPathSlug

\* the full-path slugs in the value-sets of notesMapBySimpleSlug
SimpleSlugValues == UNION { notesMapBySimpleSlug[k] : k \in DOMAIN notesMapBySimpleSlug }

\* C3: every full-path slug in a value-set of notesMapBySimpleSlug is a key of
\* notesMapByFullPathSlug, and the union of the value-sets has as many elements as
\* allNotes.
IndexInvariant ==
    scanPc = "done" =>
        /\ SimpleSlugValues \subseteq DOMAIN notesMapByFullPathSlug
        /\ Cardinality(SimpleSlugValues) = Len(allNotes)

(***************************************************************************)
(* The response parser applied to one response text, by either definition. *)
(***************************************************************************)
\* "SEO Title:", "seo title:", "Meta Description:", line feed, space, '"', "F"
RespPieces ==
    { SeoTitleLabel, ToLowerCase(SeoTitleLabel), MetaDescriptionLabel,
      <<10>>, <<32>>, <<34>>, <<70>> }

FreeResponses == StringsOf(RespPieces, MaxRespPieces)

\* texts of 158 to 162 characters: 158 "x" between at most two of '"' and "F"
LongResponses ==
    LET filler == [i \in 1..(DescriptionLimit - 2) |-> 120]
        pads   == { <<>>, <<34>>, <<70>>, <<34, 70>>, <<70, 34>>, <<34, 34>> }
    IN  { a \o filler \o b : a \in pads, b \in pads }

\* titles and descriptions of a labelled response: not empty, trimmed, of "F", '"'
\* and space; and two that hold a label in lower case
Fields ==
    { t \in StringsOf({ <<70>>, <<34>>, <<32>> }, MaxFieldPieces) :
        t # <<>> /\ Trim(t) = t }
        \cup { <<70, 32>> \o ToLowerCase(MetaDescriptionLabel),
               ToLowerCase(SeoTitleLabel) \o <<32, 70>> }

\* "SEO Title: T\nMeta Description: D"
LabelledResponse(t, d) ==
    SeoTitleLabel \o <<32>> \o t \o <<10>> \o MetaDescriptionLabel \o <<32>> \o d

\* "X" and the empty title
FallbackTitles == { <<88>>, <<>> }

InitParse ==
    /\ argFallbackTitle \in FallbackTitles
    /\ \/ /\ respKind = "free"
          /\ argResponseText \in { Some(t) : t \in FreeResponses }
          /\ fieldT = <<>>
          /\ fieldD = <<>>
       \/ /\ respKind = "long"
          /\ argResponseText \in { Some(t) : t \in LongResponses }
          /\ fieldT = <<>>
          /\ fieldD = <<>>
       \/ /\ respKind = "labelled"
          /\ fieldT \in Fields
          /\ fieldD \in Fields
          /\ argResponseText = Some(LabelledResponse(fieldT, fieldD))
       \/ /\ respKind = "absent"
          /\ argResponseText = Undefined
          /\ fieldT = <<>>
          /\ fieldD = <<>>
    /\ parsed = NoSeoData
    /\ parseDef = 0
    /\ parsePc = "input"
    /\ SlugIdle
    /\ ScanIdle
    /\ SeoIdle
    /\ LangIdle

\* the first definition of parseEnglishSEOResponse returns
ParseResponse ==
    /\ parsePc = "input"
    /\ parsed' = parseEnglishSEOResponse(argResponseText, argFallbackTitle)
    /\ parseDef' = 1
    /\ parsePc' = "parsed"
    /\ UNCHANGED <<langVars, argResponseText, argFallbackTitle, respKind, fieldT, fieldD,
                   slugVars, scanVars, seoVars>>

\* the second definition of parseEnglishSEOResponse returns
ParseResponse2 ==
    /\ parsePc = "input"
    /\ parsed' = parseEnglishSEOResponse2(argResponseText, argFallbackTitle)
    /\ parseDef' = 2
    /\ parsePc' = "parsed"
    /\ UNCHANGED <<langVars, argResponseText, argFallbackTitle, respKind, fieldT, fieldD,
                   slugVars, scanVars, seoVars>>

NextParse == ParseResponse \/ ParseResponse2

SpecParse == InitParse /\ [][NextParse]_vars

\* s holds the label somewhere, in any case of its letters
HasLabel(s, label) == \E i \in 1..Len(s) : MatchesAt(s, i, label)

HasNoLabel(s) == ~HasLabel(s, SeoTitleLabel) /\ ~HasLabel(s, MetaDescriptionLabel)

\* s without the one pair of double quotes that encloses it, if one does
Unquoted(s) ==
    IF Len(s) >= 2 /\ s[1] = 34 /\ s[Len(s)] = 34 THEN SubSeq(s, 2, Len(s) - 1) ELSE s

\* C8: for a non-empty trimmed title T and description D without line feed and
\* without either label, parsing "SEO Title: T\nMeta Description: D" returns title T
\* and description D, each without the one pair of double quotes that encloses it.
LabelledRoundTrip ==
    (/\ parsePc = "parsed"
     /\ respKind = "labelled"
     /\ HasNoLabel(fieldT)
     /\ HasNoLabel(fieldD))
        => /\ parsed.title = Some(Unquoted(fieldT))
           /\ parsed.description = Some(Unquoted(fieldD))

\* C9: for a non-blank response text without either label, the title is the
\* fallback title, the description is the first 160 characters of the trimmed text
\* without the pair of double quotes that encloses them, so it is no longer than 160
\* characters, and keywords is undefined.
UnlabelledFallback ==
    (/\ parsePc = "parsed"
     /\ argResponseText.defined
     /\ Trim(argResponseText.value) # <<>>
     /\ HasNoLabel(argResponseText.value))
        => LET trimmed == Trim(argResponseText.value)
               first   == SubSeq(trimmed, 1,
                                 IF Len(trimmed) < 160 THEN Len(trimmed) ELSE 160)
           IN  /\ parsed.title = Some(argFallbackTitle)
               /\ parsed.description = Some(Unquoted(first))
               /\ Len(parsed.description.value) <= 160
               /\ parsed.keywords = Undefined

\* an unlabelled text of more than 160 characters has been parsed, and its
\* description has 160 characters
UnlabelledFallbackWitness ==
    /\ parsePc = "parsed"
    /\ argResponseText.defined
    /\ HasNoLabel(argResponseText.value)
    /\ Len(Trim(argResponseText.value)) > 160
    /\ parsed.description.defined
    /\ Len(parsed.description.value) = 160

\* C10, as claimed: when the response holds a "SEO Title:" label, the title ends
\* at the next "Meta Description:" label, so the returned title never holds the text
\* "Meta Description:".
TitleWithoutDescriptionLabel ==
    (/\ parsePc = "parsed"
     /\ argResponseText.defined
     /\ HasLabel(argResponseText.value, SeoTitleLabel))
        => ~HasLabel(parsed.title.value, MetaDescriptionLabel)

\* a line feed with the "Meta Description:" label right after it
DescriptionLine == <<10>> \o MetaDescriptionLabel

\* C10, amended: when the response holds a "SEO Title:" label, the captured title
\* is the text between the first such label and the next line feed that the
\* "Meta Description:" label follows (or the end of the text when there is none),
\* matched case-insensitively; if it is not blank, the returned title is that text
\* trimmed (the first definition also removes the quotes around it), and never holds
\* a line feed followed by "Meta Description:".
TitleEndsAtDescriptionLine ==
    (/\ parsePc = "parsed"
     /\ argResponseText.defined
     /\ HasLabel(argResponseText.value, SeoTitleLabel))
        => LET text == argResponseText.value
           IN  \E i \in 1..Len(text) :
                  /\ MatchesAt(text, i, SeoTitleLabel)
                  /\ \A h \in 1..(i - 1) : ~MatchesAt(text, h, SeoTitleLabel)
                  /\ \E j \in (i + Len(SeoTitleLabel) - 1)..Len(text) :
                        LET from     == i + Len(SeoTitleLabel)
                            captured == SubSeq(text, from, j)
                        IN  /\ j = Len(text) \/ MatchesAt(text, j + 1, DescriptionLine)
                            /\ \A h \in from..j : ~MatchesAt(text, h, DescriptionLine)
                            /\ IF Trim(captured) = <<>>
                               THEN parsed.title = Some(argFallbackTitle)
                               ELSE /\ parsed.title.value =
                                          IF parseDef = 1
                                          THEN StripQuotes(Trim(captured))
                                          ELSE Trim(captured)
                                    /\ ~HasLabel(parsed.title.value, DescriptionLine)

\* a text with a title, a line feed, "Meta Description:" and more has been parsed,
\* and the title returned is taken from it
TitleEndsAtDescriptionLineWitness ==
    /\ parsePc = "parsed"
    /\ argResponseText.defined
    /\ HasLabel(argResponseText.value, SeoTitleLabel)
    /\ HasLabel(argResponseText.value, DescriptionLine)
    /\ parsed.title = Some(<<70>>)
    /\ parsed.title # Some(argFallbackTitle)

\* t is a part of s
OccursIn(t, s) == \E i \in 1..(Len(s) - Len(t) + 1) : SubSeq(s, i, i + Len(t) - 1) = t

\* C18: parseEnglishSEOResponse never returns an empty title when the fallback
\* title is not empty: the title returned is the fallback title or a non-empty
\* text taken from the response.
TitleNeverEmpty ==
    (parsePc = "parsed" /\ argFallbackTitle # <<>>)
        => /\ parsed.title.defined
           /\ \/ parsed.title.value = argFallbackTitle
              \/ /\ parsed.title.value # <<>>
                 /\ argResponseText.defined
                 /\ OccursIn(parsed.title.value, argResponseText.value)

\* the part of C18 that holds: the second definition never returns an empty title
TitleNeverEmpty2 ==
    (parsePc = "parsed" /\ parseDef = 2 /\ argFallbackTitle # <<>>)
        => parsed.title.defined /\ parsed.title.value # <<>>

\* the text behind the first "Meta Description:" label of s
AfterDescriptionLabel(s) ==
    LET i == CHOOSE k \in 1..Len(s) :
                 /\ MatchesAt(s, k, MetaDescriptionLabel)
                 /\ \A h \in 1..(k - 1) : ~MatchesAt(s, h, MetaDescriptionLabel)
    IN  SubSeq(s, i + Len(MetaDescriptionLabel), Len(s))

\* C19: when the response holds a "Meta Description:" label, the description
\* returned is undefined or the trimmed text behind the first such label (without
\* the pair of double quotes around it); the fallback for unlabelled text never
\* supplies it, so it holds the label only when the label is repeated behind the
\* first one.
DescriptionFollowsLabel ==
    (/\ parsePc = "parsed"
     /\ argResponseText.defined
     /\ HasLabel(argResponseText.value, MetaDescriptionLabel))
        => LET after == Trim(AfterDescriptionLabel(argResponseText.value))
           IN  /\ \/ parsed.description = Undefined
                  \/ after # <<>> /\ parsed.description = Some(Unquoted(after))
               /\ (parsed.description.defined
                     /\ HasLabel(parsed.description.value, MetaDescriptionLabel))
                       => HasLabel(after, MetaDescriptionLabel)

\* the part of C19 that holds: when text that is not blank follows the label
DescriptionFollowsLabelWithText ==
    (/\ parsePc = "parsed"
     /\ argResponseText.defined
     /\ HasLabel(argResponseText.value, MetaDescriptionLabel)
     /\ Trim(AfterDescriptionLabel(argResponseText.value)) # <<>>)
        => parsed.description =
               Some(StripQuotes(Trim(AfterDescriptionLabel(argResponseText.value))))

(***************************************************************************)
(* One call of markdownToSEO: the gates, the load of the model, the        *)
(* invocation of the generator, and the result.                            *)
(***************************************************************************)
\* "A", "", a Hangul syllable, "A" and a CJK ideograph, a Cyrillic letter
SeoTitles == { <<65>>, <<>>, <<54620>>, <<65, 20013>>, <<1103>> }

\* n words "w" with one space between them
Words(n) == [i \in 1..(2 * n - 1) |-> IF i % 2 = 1 THEN 119 ELSE 32]

\* contents of "w", space and line feed; contents of one word less than, and of
\* exactly, the default minimum, and of one word more than the default maximum; a
\* content of two Hangul syllables
Contents ==
    StringsOf({ <<119>>, <<32>>, <<10>> }, MaxContentPieces)
        \cup { Words(DefaultMinContentLengthForSeo - 1),
               Words(DefaultMinContentLengthForSeo),
               Words(DefaultMaxContentLengthForPrompt + 1),
               <<54620, 32, 44544>> }

Thresholds == { Undefined } \cup { Some(n) : n \in 1..MaxConfigWords }

Configs ==
    [minContentLengthForSeo : Thresholds, maxContentLengthForPrompt : Thresholds]

\* the texts a model generates: "" and "SEO Title: F\nMeta Description: F"
GeneratedTexts == { <<>>, LabelledResponse(<<70>>, <<70>>) }

\* the elements of the outputs: null, an object without a generated_text string, an
\* object with one
Results == { NullResult, Result(Undefined) } \cup { Result(Some(t)) : t \in GeneratedTexts }

\* what the generator returns: one result, or a list of results
ModelOutputs ==
    { [isArray |-> FALSE, results |-> <<r>>] : r \in Results }
        \cup { [isArray |-> TRUE, results |-> rs] :
                 rs \in UNION { [1..k -> Results] : k \in 0..MaxResults } }

Init ==
    /\ argTitle \in SeoTitles
    /\ argContent \in Contents
    /\ argConfig \in Configs
    /\ seoDef \in {1, 2}
    /\ seoPc = "called"
    /\ prompt = <<>>
    /\ generatorOutputs = NoOutputs
    /\ pipelineLoads = 0
    /\ generatorCalls = 0
    /\ seoTrace = <<>>
    /\ seoResult = Pending
    /\ SlugIdle
    /\ ScanIdle
    /\ ParseIdle
    /\ LangIdle

\* the title is not likely English: undefined is returned
SkipNonEnglish ==
    /\ seoPc = "called"
    /\ ~PassesLanguageGate(argTitle, argContent)
    /\ seoTrace' = Append(seoTrace, "languageGate")
    /\ seoResult' = Resolved(Undefined)
    /\ seoPc' = "returned"
    /\ UNCHANGED <<langVars, argTitle, argContent, argConfig, seoDef, prompt, generatorOutputs,
                   pipelineLoads, generatorCalls, slugVars, scanVars, parseVars>>

\* the content is too short: undefined is returned
SkipTooShort ==
    /\ seoPc = "called"
    /\ PassesLanguageGate(argTitle, argContent)
    /\ ~PassesLengthGate(argContent, argConfig)
    /\ seoTrace' = seoTrace \o <<"languageGate", "lengthGate">>
    /\ seoResult' = Resolved(Undefined)
    /\ seoPc' = "returned"
    /\ UNCHANGED <<langVars, argTitle, argContent, argConfig, seoDef, prompt, generatorOutputs,
                   pipelineLoads, generatorCalls, slugVars, scanVars, parseVars>>

\* both gates pass: pipeline() is called and awaited
LoadPipeline ==
    /\ seoPc = "called"
    /\ PassesLanguageGate(argTitle, argContent)
    /\ PassesLengthGate(argContent, argConfig)
    /\ seoTrace' = seoTrace \o <<"languageGate", "lengthGate", "load">>
    /\ pipelineLoads' = pipelineLoads + 1
    /\ seoPc' = "loading"
    /\ UNCHANGED <<langVars, argTitle, argContent, argConfig, seoDef, prompt, generatorOutputs,
                   generatorCalls, seoResult, slugVars, scanVars, parseVars>>

\* the load fails: the error is caught
PipelineThrows ==
    /\ seoPc = "loading"
    /\ seoTrace' = Append(seoTrace, "loadFailed")
    /\ seoResult' = Catch
    /\ seoPc' = "returned"
    /\ UNCHANGED <<langVars, argTitle, argContent, argConfig, seoDef, prompt, generatorOutputs,
                   pipelineLoads, generatorCalls, slugVars, scanVars, parseVars>>

\* the model is loaded: the prompt is built, the generator is called and awaited
InvokeGenerator ==
    /\ seoPc = "loading"
    /\ prompt' = constructEnglishSEOPrompt(
                     argTitle,
                     ContentExcerpt(argContent, MaxContentLengthForPrompt(argConfig)))
    /\ seoTrace' = Append(seoTrace, "invoke")
    /\ generatorCalls' = generatorCalls + 1
    /\ seoPc' = "generating"
    /\ UNCHANGED <<langVars, argTitle, argContent, argConfig, seoDef, generatorOutputs, pipelineLoads,
                   seoResult, slugVars, scanVars, parseVars>>

\* mutation of GeneratorThrows: after a failure the generator is invoked again, up
\* to three times
GeneratorThrowsRetry ==
    /\ seoPc = "generating"
    /\ seoTrace' = Append(seoTrace, "invokeFailed")
    /\ seoResult' = IF generatorCalls < 3 THEN seoResult ELSE Catch
    /\ seoPc' = IF generatorCalls < 3 THEN "loading" ELSE "returned"
    /\ prompt' = <<>>
    /\ UNCHANGED <<langVars, argTitle, argContent, argConfig, seoDef, generatorOutputs,
                   pipelineLoads, generatorCalls, slugVars, scanVars, parseVars>>

\* the generator fails: the error is caught
GeneratorThrows ==
    /\ seoPc = "generating"
    /\ seoTrace' = Append(seoTrace, "invokeFailed")
    /\ seoResult' = Catch
    /\ seoPc' = "returned"
    /\ prompt' = <<>>
    /\ UNCHANGED <<langVars, argTitle, argContent, argConfig, seoDef, generatorOutputs, pipelineLoads,
                   generatorCalls, slugVars, scanVars, parseVars>>

\* the generator returns: the generated text is read off the generatorOutputs and parsed
GeneratorReturns ==
    /\ seoPc = "generating"
    /\ \E o \in ModelOutputs :
          LET extracted == ExtractGeneratedText(o)
          IN  /\ generatorOutputs' = o
              /\ seoResult' = IF extracted.threw THEN Catch
                              ELSE ReturnGenerated(seoDef, extracted.generatedText,
                                                   argTitle)
    /\ seoTrace' = Append(seoTrace, "generated")
    /\ seoPc' = "returned"
    /\ prompt' = <<>>
    /\ UNCHANGED <<langVars, argTitle, argContent, argConfig, seoDef, pipelineLoads,
                   generatorCalls, slugVars, scanVars, parseVars>>

Next ==
    \/ SkipNonEnglish
    \/ SkipTooShort
    \/ LoadPipeline
    \/ PipelineThrows
    \/ InvokeGenerator
    \/ GeneratorThrows
    \/ GeneratorReturns

Spec == Init /\ [][Next]_vars

\* the non-empty tokens of s that white space separates: one begins at every
\* character that is no white space and follows white space or begins s
TokenCount(s) ==
    Cardinality({ i \in 1..Len(s) :
                    ~IsWhiteSpace(s[i]) /\ (i = 1 \/ IsWhiteSpace(s[i - 1])) })

\* the last step of the call
LastStep == IF seoTrace = <<>> THEN "none" ELSE seoTrace[Len(seoTrace)]

\* C4: for every title and every content of fewer tokens than
\* minContentLengthForSeo the call resolves to undefined; a content of exactly
\* minContentLengthForSeo tokens is not rejected by the length gate (with a title
\* that passes the language gate, the model is loaded).
LengthGate ==
    seoPc = "returned" =>
        /\ TokenCount(argContent) < MinContentLengthForSeo(argConfig)
              => seoResult = Resolved(Undefined) /\ pipelineLoads = 0
        /\ (/\ TokenCount(argContent) = MinContentLengthForSeo(argConfig)
            /\ isLikelyEnglish(argTitle))
              => pipelineLoads = 1

\* a call with an English title and one token less than the configured minimum has
\* returned undefined without loading the model
LengthGateWitness ==
    /\ seoPc = "returned"
    /\ argTitle = <<65>>
    /\ argConfig.minContentLengthForSeo.defined
    /\ TokenCount(argContent) + 1 = MinContentLengthForSeo(argConfig)
    /\ TokenCount(argContent) >= 1
    /\ seoResult = Resolved(Undefined)
    /\ LastStep = "lengthGate"

\* C5: whenever isLikelyEnglish(originalTitle) is false the call resolves to
\* undefined, for every content; only the title is tested: a content in another
\* script does not stop a call whose title is likely English at the language gate.
LanguageGate ==
    seoPc = "returned" =>
        /\ ~isLikelyEnglish(argTitle)
              => seoResult = Resolved(Undefined) /\ pipelineLoads = 0
        /\ (isLikelyEnglish(argTitle) /\ ~isLikelyEnglish(argContent))
              => LastStep # "languageGate"

\* a call with a title that is not likely English and a content of the default
\* minimum of words has returned undefined at the language gate
LanguageGateWitness ==
    /\ seoPc = "returned"
    /\ ~isLikelyEnglish(argTitle)
    /\ isLikelyEnglish(argContent)
    /\ TokenCount(argContent) >= MinContentLengthForSeo(argConfig)
    /\ ~argConfig.minContentLengthForSeo.defined
    /\ seoResult = Resolved(Undefined)
    /\ LastStep = "languageGate"

\* the outputs carry no non-empty generated_text string, in any result
NoGeneratedText(o) ==
    \A k \in DOMAIN o.results :
        \/ o.results[k].isNull
        \/ ~o.results[k].generated_text.defined
        \/ o.results[k].generated_text.value = <<>>

\* C6: if loading the model throws, invoking it throws, or the response (one result
\* or a list) carries no non-empty generated_text string, the call resolves to
\* undefined; the promise never rejects and no SEOData is returned.
FailureIsSkip ==
    /\ seoResult.status # "rejected"
    /\ seoPc = "returned" =>
          /\ LastStep \in {"loadFailed", "invokeFailed"}
                => seoResult = Resolved(Undefined)
          /\ (LastStep = "generated" /\ NoGeneratedText(generatorOutputs))
                => seoResult = Resolved(Undefined)

\* the generator returned a list of two results without a generated text, one of
\* them null, and the call has resolved to undefined
FailureIsSkipWitness ==
    /\ seoPc = "returned"
    /\ LastStep = "generated"
    /\ generatorOutputs.isArray
    /\ Len(generatorOutputs.results) = 2
    /\ generatorOutputs.results[1].isNull
    /\ NoGeneratedText(generatorOutputs)
    /\ seoResult = Resolved(Undefined)

\* the result the code reads (the object, or the first of the list) carries a
\* non-empty generated_text string
GeneratedTextReturned(o) ==
    /\ Len(o.results) > 0
    /\ ~o.results[1].isNull
    /\ o.results[1].generated_text.defined
    /\ o.results[1].generated_text.value # <<>>

\* C7: when the title passes the language gate, the content has at least
\* minContentLengthForSeo words and the model returns a non-empty generated_text,
\* in either response shape, the call resolves to an SEOData with a defined title.
GeneratedIsReturned ==
    (/\ seoPc = "returned"
     /\ isLikelyEnglish(argTitle)
     /\ TokenCount(argContent) >= MinContentLengthForSeo(argConfig)
     /\ LastStep = "generated"
     /\ GeneratedTextReturned(generatorOutputs))
        => /\ seoResult.status = "resolved"
           /\ seoResult.value.defined
           /\ seoResult.value.value.title.defined

\* the generator returned a list whose first result carries a labelled text, and
\* the call has resolved to an SEOData with the title and description of the text
GeneratedIsReturnedWitness ==
    /\ seoPc = "returned"
    /\ LastStep = "generated"
    /\ generatorOutputs.isArray
    /\ GeneratedTextReturned(generatorOutputs)
    /\ seoResult.value.defined
    /\ seoResult.value.value.title = Some(<<70>>)
    /\ seoResult.value.value.description = Some(<<70>>)

\* how many steps of the call are the step e
Occurrences(e) == Cardinality({ i \in 1..Len(seoTrace) : seoTrace[i] = e })

\* C15: in every execution of markdownToSEO the model is loaded at most once and
\* invoked at most once (no retry after a failure or an empty result), the load
\* completes before the invocation starts, and neither happens unless the
\* language gate and then the length gate have both passed.
SingleAttempt ==
    /\ pipelineLoads <= 1
    /\ generatorCalls <= 1
    /\ Occurrences("load") = pipelineLoads
    /\ Occurrences("invoke") = generatorCalls
    /\ \A j \in 1..Len(seoTrace) :
          seoTrace[j] = "invoke" => (j > 1 /\ seoTrace[j - 1] = "load")
    /\ \A j \in 1..Len(seoTrace) :
          seoTrace[j] = "load" =>
              /\ j = 3
              /\ seoTrace[1] = "languageGate"
              /\ seoTrace[2] = "lengthGate"
              /\ isLikelyEnglish(argTitle)
              /\ TokenCount(argContent) >= MinContentLengthForSeo(argConfig)
    /\ seoPc = "returned" =>
          Len(seoTrace) <= 5 /\ LastStep \notin {"load", "invoke"}

\* a call that returned after the one invocation of the generator failed, or gave
\* no text: the model was loaded once and invoked once
SingleAttemptWitness ==
    /\ seoPc = "returned"
    /\ pipelineLoads = 1
    /\ generatorCalls = 1
    /\ seoResult = Resolved(Undefined)
    /\ LastStep \in {"invokeFailed", "generated"}

\* the words of s, the non-empty tokens that white space separates, in order
WordsOf(s) ==
    LET starts == { i \in 1..Len(s) :
                      ~IsWhiteSpace(s[i]) /\ (i = 1 \/ IsWhiteSpace(s[i - 1])) }
        order  == Ascending(starts, 1, Len(s))
    IN  [k \in 1..Len(order) |-> SubSeq(s, order[k], FirstWs(s, order[k]) - 1)]

\* the first min(n, number of words) words of s, with single spaces between them
FirstWords(s, n) ==
    LET words == WordsOf(s)
    IN  Join(SubSeq(words, 1, IF n < Len(words) THEN n ELSE Len(words)), <<32>>)

\* C16: when both gates pass, the excerpt in the prompt is the first
\* min(maxContentLengthForPrompt, wordCount) words of the content, the non-empty
\* tokens the length gate counts, joined by single spaces, with no space before or
\* after.
ExcerptIsFirstWords ==
    seoPc = "generating" =>
        prompt = constructEnglishSEOPrompt(
                     argTitle,
                     FirstWords(argContent, MaxContentLengthForPrompt(argConfig)))

\* the part of C16 that holds: for a content without white space before or after
ExcerptOfTrimmedContent ==
    (seoPc = "generating" /\ argContent = Trim(argContent)) =>
        prompt = constructEnglishSEOPrompt(
                     argTitle,
                     FirstWords(argContent, MaxContentLengthForPrompt(argConfig)))

====
